---- MODULE Spec2Model ----
(***************************************************************************)
(* composer-rs: the installer of src/main.rs (commands, the spawn loop,    *)
(* the per-package install tasks, the archive cache and the vendor tree),  *)
(* the autoload generator of src/autoload.rs and the classmap scanner of   *)
(* src/classmap.rs.                                                        *)
(***************************************************************************)
EXTENDS Integers, Sequences, FiniteSets, TLC

\* ------------------------------------------------------------------ bounds
MaxPkgs == 2          \* packages in composer.lock
MaxCommands == 3      \* CLI invocations in one behaviour
ArchiveChunks == 2    \* write(2) calls it takes to store one archive
WarmRuns == 2         \* consecutive installs in the warm-cache scenario
MaxStatements == 4    \* statements of a parsed file, nested ones counted
MaxEntries == 5       \* files and directories under the package directory
MaxJoined == 3        \* packages in composer.lock when the join is examined

\* ------------------------------------------------------------ Option<T>
None == <<>>
Some(x) == <<x>>
IsSome(o) == Len(o) = 1
Unwrap(o) == o[1]

\* ------------------------------------------------- composer.lock contents
\* ComposerPackageSource
Descriptor(t, u, r) == [source_type |-> t, url |-> u, reference |-> r]

DistA   == Descriptor("zip", "https://repo/a.zip", "a")
DistB   == Descriptor("zip", "https://repo/b.zip", "b")
DistBad == Descriptor("zip", "https://repo/corrupt.zip", "x")
DistGit == Descriptor("git", "https://git/g.git", "g")
SrcZip  == Descriptor("zip", "https://repo/s.zip", "s")
SrcGit  == Descriptor("git", "https://git/a.git", "h")

References == {"a", "b", "x", "s"}

\* ComposerPackage without its name: a resolved lock file names each
\* package once, so the name is given by the position in the manifest
PackageNames == <<"acme/one", "acme/two", "acme/three", "acme/four">>

Shape(t, s, d) == [package_type |-> t, source |-> s, dist |-> d]

PackageShapes ==
    { Shape(None, Some(SrcGit), Some(DistA)),
      Shape(Some("library"), Some(SrcZip), Some(DistB)),
      Shape(None, Some(SrcZip), None),
      Shape(None, None, Some(DistA)),
      Shape(None, None, None),
      Shape(Some("metapackage"), None, None),
      Shape(Some("metapackage"), Some(SrcGit), Some(DistA)),
      Shape(None, Some(SrcZip), Some(DistGit)),
      Shape(None, Some(SrcGit), Some(DistBad)) }

ComposerPackage(n, sh) ==
    [name |-> PackageNames[n], package_type |-> sh.package_type,
     source |-> sh.source, dist |-> sh.dist]

Manifests ==
    UNION { { [i \in 1..n |-> ComposerPackage(i, f[i])] :
                f \in [1..n -> PackageShapes] } : n \in 0..MaxPkgs }

\* --------------------------------------------------------- the network
\* What the server answers for a url: the archive stored there. Two
\* descriptors with the same reference name the same archive.
ServerArchive(url) ==
    CASE url = "https://repo/a.zip" -> "a"
      [] url = "https://repo/b.zip" -> "b"
      [] url = "https://repo/s.zip" -> "s"
      [] OTHER -> "corrupt"

Hole == <<"", 0>>
ArchiveBytes(id) == [k \in 1..ArchiveChunks |-> <<id, k>>]
GoodArchives == {"a", "b", "s"}

\* zip_extract::extract succeeds on the complete bytes of a well-formed
\* archive only
ValidZip(bytes) == \E id \in GoodArchives : bytes = ArchiveBytes(id)
Unzip(bytes) == CHOOSE id \in GoodArchives : bytes = ArchiveBytes(id)

\* ---------------------------------------------------------------- state
VARIABLES
    manifest,     \* composer.lock of the working directory
    cache,        \* <cache>/archives: reference -> [exists, bytes]
    vendor,       \* <cwd>/vendor: package name -> [exists, files]
    autoloadOut,  \* autoload files present under vendor/
    phase,        \* "idle" | "loop" | "abort"
    idx,          \* position of the `for package` loop
    handles,      \* packages whose task was spawned, in spawn order
    task,         \* per package: the state of its install task
    log,          \* what the tasks of the current run did: <<package, event>>
    coldStart,    \* whether the current run started with an empty cache
    runs,         \* the finished commands, oldest first
    lock,         \* lock::ComposerLock handed to generate_composer_autoload
    xxh3_64,      \* xxhash_rust::xxh3::xxh3_64 on the declared file names
    build,        \* generate_composer_autoload: position and the four maps
    composerDir,  \* vendor/autoload.php and vendor/composer/*: the templates
    parsed,       \* get_classes_of_statements: statements, position, classes
    tree,         \* the package directory: path -> entry
    request,      \* the arguments of generate_classmap
    walk          \* generate_classmap: position, entries to visit, the map

installerVars == <<manifest, cache, vendor, autoloadOut, phase, idx, handles,
                   task, log, coldStart, runs>>
autoloadVars == <<lock, xxh3_64, build, composerDir>>
classmapVars == <<tree, request, walk>>
generatorVars == <<autoloadVars, parsed, classmapVars>>

vars == <<installerVars, generatorVars>>

\* the generators before they are called
AutoloadIdle ==
    /\ lock = [packages |-> <<>>, content_hash |-> ""]
    /\ xxh3_64 = <<>>
    /\ build = [pc |-> "idle"]
    /\ composerDir = <<>>

ExtractionIdle == parsed = [pc |-> "idle"]

ClassmapIdle ==
    /\ tree = {}
    /\ request = [pc |-> "idle"]
    /\ walk = [pc |-> "idle"]

Pkgs == 1..Len(manifest)

\* pc: "none" (not spawned) | "spawned" | "read" | "fetch" | "mkdir" |
\* "extract" | "create" | "write" | "ok" | "err" | "panicked" | "cancelled"
NoTask == [pc |-> "none", source |-> Descriptor("", "", ""), cache_hit |-> FALSE,
           buffer |-> <<>>, written |-> 0, error |-> <<>>]

NoFile == [exists |-> FALSE, bytes |-> <<>>]
NoDir  == [exists |-> FALSE, files |-> {}]

Init ==
    /\ manifest \in Manifests
    /\ cache = [r \in References |-> NoFile]
    /\ vendor = [n \in {manifest[i].name : i \in 1..Len(manifest)} |-> NoDir]
    /\ autoloadOut = {}
    /\ phase = "idle"
    /\ idx = 1
    /\ handles = <<>>
    /\ task = [p \in 1..Len(manifest) |-> NoTask]
    /\ log = {}
    /\ coldStart = TRUE
    /\ runs = <<>>
    /\ AutoloadIdle
    /\ ExtractionIdle
    /\ ClassmapIdle

\* ------------------------------------------------------------- main()
OkResult == [tag |-> "Ok", msg |-> <<>>]

Finished(command, result) ==
    [command |-> command, result |-> result, log |-> log,
     vendor |-> vendor, cold |-> coldStart]

CacheIsEmpty == \A r \in References : ~cache[r].exists

\* Some(Commands::Install {}): install_from_composer_lock up to the loop
StartInstall ==
    /\ phase = "idle"
    /\ Len(runs) < MaxCommands
    /\ phase' = "loop"
    /\ idx' = 1
    /\ handles' = <<>>
    /\ task' = [p \in Pkgs |-> NoTask]
    /\ log' = {}
    /\ coldStart' = CacheIsEmpty
    /\ UNCHANGED <<manifest, cache, vendor, autoloadOut, runs>>
    /\ UNCHANGED generatorVars

\* Some(Commands::ClearCache {}): prints "Clearing cache" and returns Ok(())
ClearCache ==
    /\ phase = "idle"
    /\ Len(runs) < MaxCommands
    /\ runs' = Append(runs, [command |-> "clear-cache", result |-> OkResult,
                             log |-> {}, vendor |-> vendor,
                             cold |-> CacheIsEmpty])
    /\ UNCHANGED <<manifest, cache, vendor, autoloadOut, phase, idx, handles,
                   task, log, coldStart>>
    /\ UNCHANGED generatorVars

\* None: prints "No command passed" and returns Ok(())
NoCommand ==
    /\ phase = "idle"
    /\ Len(runs) < MaxCommands
    /\ runs' = Append(runs, [command |-> "none", result |-> OkResult,
                             log |-> {}, vendor |-> vendor,
                             cold |-> CacheIsEmpty])
    /\ UNCHANGED <<manifest, cache, vendor, autoloadOut, phase, idx, handles,
                   task, log, coldStart>>
    /\ UNCHANGED generatorVars

\* ------------------------------------- install_from_composer_lock: loop
\* the comparison misspelt: no package is taken for a metapackage
IsMetapackageMisspelt(package) ==
    IsSome(package.package_type) /\ Unwrap(package.package_type) = "meta-package"

IsMetapackage(package) ==
    IsSome(package.package_type) /\ Unwrap(package.package_type) = "metapackage"

\* package.dist.unwrap_or(package.source.unwrap()): the argument of
\* unwrap_or is evaluated before the call, so source.unwrap() runs (and
\* panics on None) whether or not dist is present
DescriptorPanics(package) == ~IsSome(package.source)

SelectDescriptor(package) ==
    IF IsSome(package.dist) THEN Unwrap(package.dist)
                            ELSE Unwrap(package.source)

InLoop == phase = "loop" /\ idx <= Len(manifest)

LoopSkipMetapackage ==
    /\ InLoop
    /\ IsMetapackage(manifest[idx])
    /\ idx' = idx + 1
    /\ UNCHANGED <<manifest, cache, vendor, autoloadOut, phase, handles,
                   task, log, coldStart, runs>>
    /\ UNCHANGED generatorVars

LoopSpawn ==
    /\ InLoop
    /\ ~IsMetapackage(manifest[idx])
    /\ ~DescriptorPanics(manifest[idx])
    /\ task' = [task EXCEPT ![idx] =
                    [NoTask EXCEPT !.pc = "spawned",
                                   !.source = SelectDescriptor(manifest[idx])]]
    /\ handles' = Append(handles, idx)
    /\ idx' = idx + 1
    /\ UNCHANGED <<manifest, cache, vendor, autoloadOut, phase, log,
                   coldStart, runs>>
    /\ UNCHANGED generatorVars

Running(t) == t.pc \in {"spawned", "read", "fetch", "mkdir", "extract",
                        "create", "write"}

\* The panic unwinds out of block_on and drops the runtime: every task is
\* dropped at its await point; a blocking file write that has started runs
\* to its end before the process exits.
LoopPanic ==
    /\ InLoop
    /\ ~IsMetapackage(manifest[idx])
    /\ DescriptorPanics(manifest[idx])
    /\ phase' = "abort"
    /\ task' = [p \in Pkgs |->
                    IF Running(task[p]) /\ task[p].pc # "write"
                    THEN [task[p] EXCEPT !.pc = "cancelled"]
                    ELSE task[p]]
    /\ UNCHANGED <<manifest, cache, vendor, autoloadOut, idx, handles, log,
                   coldStart, runs>>
    /\ UNCHANGED generatorVars

PanicResult ==
    [tag |-> "Panic",
     msg |-> <<"called Option::unwrap() on a None value">>]

AbortExit ==
    /\ phase = "abort"
    /\ \A p \in Pkgs : ~Running(task[p])
    /\ phase' = "idle"
    /\ runs' = Append(runs, Finished("install", PanicResult))
    /\ UNCHANGED <<manifest, cache, vendor, autoloadOut, idx, handles, task,
                   log, coldStart>>
    /\ UNCHANGED generatorVars

\* ------------------------------------------------ the per-package task
TasksRun == phase = "loop"

Logged(p, event) == log' = log \cup {<<p, event>>}

CacheFile(source) == source.reference     \* "<reference>.zip"

\* the presence check looking for "<url>.zip", which is never written
CacheFileExistsByUrl(c, source) ==
    source.url \in References /\ c[source.url].exists

CacheFileExists(c, source) == c[CacheFile(source)].exists

\* install_package, and install_package_from_zip up to its first await
InstallPackage(p) ==
    /\ TasksRun
    /\ task[p].pc = "spawned"
    /\ task' = [task EXCEPT ![p] =
          IF task[p].source.source_type # "zip"
          THEN [@ EXCEPT !.pc = "err",
                         !.error = <<"Unsupported source type: ",
                                     task[p].source.source_type>>]
          ELSE IF CacheFileExists(cache, task[p].source)
               THEN [@ EXCEPT !.pc = "read", !.cache_hit = TRUE]
               ELSE [@ EXCEPT !.pc = "fetch"]]
    /\ UNCHANGED <<manifest, cache, vendor, autoloadOut, phase, idx, handles,
                   log, coldStart, runs>>
    /\ UNCHANGED generatorVars

\* File::open(&cache_file) and read_to_end
ReadCached(p) ==
    /\ TasksRun
    /\ task[p].pc = "read"
    /\ task' = [task EXCEPT ![p] =
          [@ EXCEPT !.pc = "mkdir",
                    !.buffer = cache[CacheFile(task[p].source)].bytes]]
    /\ Logged(p, "hit")
    /\ UNCHANGED <<manifest, cache, vendor, autoloadOut, phase, idx, handles,
                   coldStart, runs>>
    /\ UNCHANGED generatorVars

\* client.get(url).send() ... resp.bytes(), answered with the archive
FetchOk(p) ==
    /\ TasksRun
    /\ task[p].pc = "fetch"
    /\ task' = [task EXCEPT ![p] =
          [@ EXCEPT !.pc = "mkdir",
                    !.buffer = ArchiveBytes(ServerArchive(task[p].source.url))]]
    /\ Logged(p, "fetch")
    /\ UNCHANGED <<manifest, cache, vendor, autoloadOut, phase, idx, handles,
                   coldStart, runs>>
    /\ UNCHANGED generatorVars

\* the same, with a transport error or a non-2xx status: expect() panics
FetchFails(p) ==
    /\ TasksRun
    /\ task[p].pc = "fetch"
    /\ task' = [task EXCEPT ![p] =
          [@ EXCEPT !.pc = "panicked",
                    !.error = <<"failed to download package">>]]
    /\ Logged(p, "fetch")
    /\ UNCHANGED <<manifest, cache, vendor, autoloadOut, phase, idx, handles,
                   coldStart, runs>>
    /\ UNCHANGED generatorVars

\* every task extracting into the directory of the first package
ExtractDirOfFirst(p) == manifest[1].name

\* `extract`: working_directory/vendor/<package.name>
ExtractDir(p) == manifest[p].name

\* tokio::fs::create_dir_all(&extract)
CreateDirAll(p) ==
    /\ TasksRun
    /\ task[p].pc = "mkdir"
    /\ vendor' = [vendor EXCEPT ![ExtractDir(p)].exists = TRUE]
    /\ task' = [task EXCEPT ![p].pc = "extract"]
    /\ Logged(p, "mkdir")
    /\ UNCHANGED <<manifest, cache, autoloadOut, phase, idx, handles,
                   coldStart, runs>>
    /\ UNCHANGED generatorVars

\* the result of the extraction dropped instead of unwrapped: the task goes
\* on to the cache write whether or not the archive could be extracted
ExtractUnchecked(p) ==
    /\ TasksRun
    /\ task[p].pc = "extract"
    /\ IF ValidZip(task[p].buffer)
       THEN /\ vendor' = [vendor EXCEPT ![ExtractDir(p)].files =
                              @ \cup {Unzip(task[p].buffer)}]
            /\ Logged(p, "extract")
       ELSE UNCHANGED <<vendor, log>>
    /\ task' = [task EXCEPT ![p].pc =
                    IF task[p].cache_hit THEN "ok" ELSE "create"]
    /\ UNCHANGED <<manifest, cache, autoloadOut, phase, idx, handles,
                   coldStart, runs>>
    /\ UNCHANGED generatorVars

\* zip_extract::extract(Cursor::new(..), &extract, true); on the cache-hit
\* branch the function then returns Ok(())
Extract(p) ==
    /\ TasksRun
    /\ task[p].pc = "extract"
    /\ IF ValidZip(task[p].buffer)
       THEN /\ vendor' = [vendor EXCEPT ![ExtractDir(p)].files =
                              @ \cup {Unzip(task[p].buffer)}]
            /\ task' = [task EXCEPT ![p].pc =
                              IF task[p].cache_hit THEN "ok" ELSE "create"]
            /\ Logged(p, "extract")
       ELSE /\ task' = [task EXCEPT ![p] =
                  [@ EXCEPT !.pc = "panicked",
                            !.error = <<"failed to extract zip file">>]]
            /\ UNCHANGED <<vendor, log>>
    /\ UNCHANGED <<manifest, cache, autoloadOut, phase, idx, handles,
                   coldStart, runs>>
    /\ UNCHANGED generatorVars

\* tokio::fs::write(&cache_file, bytes) is std::fs::write on a blocking
\* thread: File::create (O_CREAT | O_TRUNC), then write_all
WriteCreate(p) ==
    /\ TasksRun
    /\ task[p].pc = "create"
    /\ cache' = [cache EXCEPT ![CacheFile(task[p].source)] =
                    [exists |-> TRUE, bytes |-> <<>>]]
    /\ task' = [task EXCEPT ![p] = [@ EXCEPT !.pc = "write", !.written = 0]]
    /\ Logged(p, "cache-write")
    /\ UNCHANGED <<manifest, vendor, autoloadOut, phase, idx, handles,
                   coldStart, runs>>
    /\ UNCHANGED generatorVars

\* a write of one chunk at the writer's own file offset; a gap left by a
\* concurrent truncation reads as zeros
WriteAt(bytes, pos, chunk) ==
    [k \in 1..(IF Len(bytes) > pos THEN Len(bytes) ELSE pos) |->
        IF k = pos THEN chunk
        ELSE IF k <= Len(bytes) THEN bytes[k] ELSE Hole]

WriteChunk(p) ==
    /\ phase \in {"loop", "abort"}
    /\ task[p].pc = "write"
    /\ LET pos == task[p].written + 1
           file == CacheFile(task[p].source)
       IN /\ cache' = [cache EXCEPT ![file].bytes =
                          WriteAt(@, pos, task[p].buffer[pos])]
          /\ task' = [task EXCEPT ![p] =
                 IF pos < Len(task[p].buffer)
                 THEN [@ EXCEPT !.written = pos]
                 ELSE [@ EXCEPT !.written = pos,
                                !.pc = IF phase = "abort" THEN "cancelled"
                                                          ELSE "ok"]]
    /\ UNCHANGED <<manifest, vendor, autoloadOut, phase, idx, handles, log,
                   coldStart, runs>>
    /\ UNCHANGED generatorVars

\* ------------------- install_from_composer_lock: join_all and the result
\* what each JoinHandle resolves to, in the order of `handles`
JoinResults(hs, t) == [k \in 1..Len(hs) |-> t[hs[k]]]

\* a panicked task taken for a success
IsFailureIgnoringPanics(r) == r.pc = "err"

IsFailure(r) == r.pc # "ok"

\* for result in results { match result { ... } }
Aggregate(results) ==
    IF \E k \in 1..Len(results) : IsFailure(results[k])
    THEN LET first == CHOOSE k \in 1..Len(results) :
                         /\ IsFailure(results[k])
                         /\ \A j \in 1..(k - 1) : ~IsFailure(results[j])
             r == results[first]
         IN IF r.pc = "err"
            THEN [tag |-> "Err",
                  msg |-> <<"Future failed with error: ">> \o r.error]
            ELSE [tag |-> "Err",
                  msg |-> <<"Future panicked: ", "task panicked">>]
    ELSE OkResult

JoinAll ==
    /\ phase = "loop"
    /\ idx > Len(manifest)
    /\ \A k \in 1..Len(handles) : ~Running(task[handles[k]])
    /\ phase' = "idle"
    /\ runs' = Append(runs,
                      Finished("install", Aggregate(JoinResults(handles, task))))
    /\ UNCHANGED <<manifest, cache, vendor, autoloadOut, idx, handles, task,
                   log, coldStart>>
    /\ UNCHANGED generatorVars

\* ------------------------------------------------------- specification
\* the steps of one run of install_from_composer_lock and of its tasks
InstallSteps ==
    \/ LoopSkipMetapackage
    \/ LoopSpawn
    \/ JoinAll
    \/ \E p \in Pkgs : InstallPackage(p)
    \/ \E p \in Pkgs : ReadCached(p)
    \/ \E p \in Pkgs : FetchOk(p)
    \/ \E p \in Pkgs : FetchFails(p)
    \/ \E p \in Pkgs : CreateDirAll(p)
    \/ \E p \in Pkgs : Extract(p)
    \/ \E p \in Pkgs : WriteCreate(p)
    \/ \E p \in Pkgs : WriteChunk(p)

\* the same with the panic of the loop and the exit that follows it
RunSteps ==
    \/ InstallSteps
    \/ LoopPanic
    \/ AbortExit

\* any sequence of up to MaxCommands invocations of the program
Next ==
    \/ StartInstall
    \/ ClearCache
    \/ NoCommand
    \/ RunSteps

Spec == Init /\ [][Next]_vars

\* one `install`, started with a cold cache or with the cache holding every
\* archive earlier runs could have stored
WarmCache ==
    [r \in References |->
        IF r \in GoodArchives
        THEN [exists |-> TRUE, bytes |-> ArchiveBytes(r)]
        ELSE NoFile]

InitInstall ==
    /\ manifest \in Manifests
    /\ cache \in {[r \in References |-> NoFile], WarmCache}
    /\ vendor = [n \in {manifest[i].name : i \in 1..Len(manifest)} |-> NoDir]
    /\ autoloadOut = {}
    /\ phase = "idle"
    /\ idx = 1
    /\ handles = <<>>
    /\ task = [p \in 1..Len(manifest) |-> NoTask]
    /\ log = {}
    /\ coldStart = TRUE
    /\ runs = <<>>
    /\ AutoloadIdle
    /\ ExtractionIdle
    /\ ClassmapIdle

FirstInstall == runs = <<>> /\ StartInstall

NextInstall ==
    \/ FirstInstall
    \/ RunSteps

SpecInstall == InitInstall /\ [][NextInstall]_vars

\* consecutive `install` runs of a manifest whose packages can all be
\* installed, starting with a cold cache; every package that is not a
\* metapackage has a source, so the loop cannot panic
InstallableShapes ==
    { sh \in PackageShapes :
        \/ IsMetapackage(sh)
        \/ /\ IsSome(sh.source)
           /\ SelectDescriptor(sh).source_type = "zip"
           /\ ServerArchive(SelectDescriptor(sh).url) \in GoodArchives }

InitWarm ==
    /\ Init
    /\ \A i \in 1..Len(manifest) :
          \E sh \in InstallableShapes : manifest[i] = ComposerPackage(i, sh)

RepeatInstall == Len(runs) < WarmRuns /\ StartInstall

NextWarm ==
    \/ RepeatInstall
    \/ InstallSteps

SpecWarm == InitWarm /\ [][NextWarm]_vars

\* one `install` of a manifest of up to MaxJoined packages, for the join of
\* several tasks: a package whose task returns an error, one whose task
\* panics, one that installs, one without source and a metapackage
JoinShapes ==
    { Shape(None, Some(SrcZip), Some(DistGit)),
      Shape(None, Some(SrcGit), Some(DistBad)),
      Shape(None, Some(SrcZip), None),
      Shape(None, None, Some(DistA)),
      Shape(Some("metapackage"), None, None) }

JoinManifests ==
    UNION { { [i \in 1..n |-> ComposerPackage(i, f[i])] :
                f \in [1..n -> JoinShapes] } : n \in 0..MaxJoined }

InitJoin ==
    /\ manifest \in JoinManifests
    /\ cache \in {[r \in References |-> NoFile], WarmCache}
    /\ vendor = [n \in {manifest[i].name : i \in 1..Len(manifest)} |-> NoDir]
    /\ autoloadOut = {}
    /\ phase = "idle"
    /\ idx = 1
    /\ handles = <<>>
    /\ task = [p \in 1..Len(manifest) |-> NoTask]
    /\ log = {}
    /\ coldStart = TRUE
    /\ runs = <<>>
    /\ AutoloadIdle
    /\ ExtractionIdle
    /\ ClassmapIdle

SpecJoin == InitJoin /\ [][NextInstall]_vars

\* ================================================== autoload.rs and lock.rs
\* --------------------------------------------------------------- strings
\* A namespace prefix is the sequence of its chars. "E_acute" stands for
\* U+00C9, which UTF-8 encodes in two bytes; every other char used here is
\* ASCII.
LenUtf8(c) == IF c = "E_acute" THEN 2 ELSE 1

\* String::len(): the length in bytes
RECURSIVE StrLen(_)
StrLen(s) == IF s = <<>> THEN 0 ELSE LenUtf8(Head(s)) + StrLen(Tail(s))

NsApp   == <<"A", "p", "p", "\\">>
NsAb    == <<"A", "b", "\\">>
NsWide  == <<"E_acute", "t", "\\">>
NsEmpty == <<>>
NsOld   == <<"O", "l", "d", "_">>
NsOx    == <<"O", "x", "_">>

\* format!("{}/{}", package.name, rest)
Format(name, rest) == <<name, "/", rest>>

\* u64::to_string(): the decimal digits
Digit(d) == <<"0", "1", "2", "3", "4", "5", "6", "7", "8", "9">>[d + 1]

RECURSIVE U64ToString(_)
U64ToString(n) ==
    IF n < 10 THEN <<Digit(n)>>
              ELSE Append(U64ToString(n \div 10), Digit(n % 10))

\* ---------------------------------------------------------------- HashMap
EmptyMap == [k \in {} |-> k]
ContainsKey(m, k) == k \in DOMAIN m
MapInsert(m, k, v) == [x \in DOMAIN m \cup {k} |-> IF x = k THEN v ELSE m[x]]

\* `for (k, v) in map`: a HashMap is iterated in an arbitrary order
IterationOrders(m) ==
    { o \in [1..Cardinality(DOMAIN m) -> DOMAIN m] :
        \A i, j \in DOMAIN o : i # j => o[i] # o[j] }

\* ------------------------------------------------------- the lock file
\* lock::ComposerAutoload
Autoload(f, p0, p4) == [files |-> f, psr0 |-> p0, psr4 |-> p4]

FileNames == {"f.php", "g.php"}

\* the hashes two file names can have: equal or different
HashValues == {7, 42}

\* lock::ComposerPackage without its name: what decides whether the
\* installer installs it (type, source, dist) and its autoload section
LockShapes ==
    { [kind |-> Shape(None, Some(SrcZip), Some(DistA)),
       autoload |-> None],
      [kind |-> Shape(None, Some(SrcZip), Some(DistA)),
       autoload |-> Some(Autoload(None, None, None))],
      [kind |-> Shape(None, Some(SrcZip), Some(DistA)),
       autoload |-> Some(Autoload(Some(<<"f.php">>), None,
                                  Some(NsApp :> "src/")))],
      [kind |-> Shape(Some("metapackage"), None, None),
       autoload |-> Some(Autoload(Some(<<"f.php">>), None,
                                  Some(NsApp :> "src/")))],
      [kind |-> Shape(None, None, None),
       autoload |-> Some(Autoload(Some(<<"g.php", "f.php">>),
                                  Some(NsOld :> "lib/"),
                                  Some(NsApp :> "lib/")))],
      [kind |-> Shape(Some("library"), Some(SrcZip), Some(DistB)),
       autoload |-> Some(Autoload(None,
                                  Some(NsOld :> "lib/" @@ NsOx :> "ox/"),
                                  Some(NsApp :> "src/" @@ NsAb :> "ab/")))],
      [kind |-> Shape(Some("metapackage"), None, None),
       autoload |-> Some(Autoload(None, Some(NsOld :> "src/"), None))],
      [kind |-> Shape(None, Some(SrcZip), None),
       autoload |-> Some(Autoload(None, None, Some(NsWide :> "w/")))],
      [kind |-> Shape(None, Some(SrcZip), Some(DistA)),
       autoload |-> Some(Autoload(None, None, Some(NsEmpty :> "src/")))],
      [kind |-> Shape(None, None, None),
       autoload |-> Some(Autoload(None, Some(NsEmpty :> "src/"), None))] }

LockPackage(n, sh) ==
    [name |-> PackageNames[n], package_type |-> sh.kind.package_type,
     source |-> sh.kind.source, dist |-> sh.kind.dist,
     autoload |-> sh.autoload]

ContentHashes == {"0f1e", "9a8b"}

\* lock::ComposerLock
Locks ==
    UNION { { [packages |-> [i \in 1..n |-> LockPackage(i, f[i])],
               content_hash |-> h] :
                f \in [1..n -> LockShapes], h \in ContentHashes } :
            n \in 0..MaxPkgs }

\* ------------------------------------------------ generate_composer_static
\* the file kept under the key of the package that declared it first
FileInsertIfAbsent(files, name, file) ==
    IF ContainsKey(files, U64ToString(xxh3_64[file]))
    THEN files
    ELSE MapInsert(files, U64ToString(xxh3_64[file]), Format(name, file))

\* files.insert(xxh3_64(file.as_bytes()).to_string(), format!(..))
FileInsert(files, name, file) ==
    MapInsert(files, U64ToString(xxh3_64[file]), Format(name, file))

\* for file in autoload.files.unwrap()
RECURSIVE InsertFiles(_, _, _)
InsertFiles(files, name, list) ==
    IF list = <<>> THEN files
    ELSE InsertFiles(FileInsert(files, name, Head(list)), name, Tail(list))

\* namespace.chars().next().unwrap() panics on the empty string
FirstLetterPanics(namespace) == namespace = <<>>
FirstLetter(namespace) == Head(namespace)

Psr0Insert(psr0, name, namespace, path) ==
    LET path_to_directory == Format(name, path)
        first_letter == FirstLetter(namespace)
    IN IF ContainsKey(psr0, first_letter)
       THEN IF ContainsKey(psr0[first_letter], namespace)
            THEN [psr0 EXCEPT ![first_letter][namespace] =
                      MapInsert(@, path_to_directory, 1)]
            ELSE [psr0 EXCEPT ![first_letter] =
                      MapInsert(@, namespace,
                                MapInsert(EmptyMap, path_to_directory, 1))]
       ELSE MapInsert(psr0, first_letter,
                      MapInsert(EmptyMap, namespace,
                                MapInsert(EmptyMap, path_to_directory, 1)))

\* the vector of a prefix replaced instead of extended
Psr4Replace(psr4, name, namespace, path) ==
    MapInsert(psr4, namespace, <<Format(name, path)>>)

Psr4Push(psr4, name, namespace, path) ==
    LET path_to_directory == Format(name, path)
    IN IF ContainsKey(psr4, namespace)
       THEN [psr4 EXCEPT ![namespace] = Append(@, path_to_directory)]
       ELSE MapInsert(psr4, namespace, <<path_to_directory>>)

Psr4PrefixInsert(psr4_prefix, namespace) ==
    LET first_letter == FirstLetter(namespace)
    IN IF ContainsKey(psr4_prefix, first_letter)
       THEN [psr4_prefix EXCEPT ![first_letter] =
                 MapInsert(@, namespace, StrLen(namespace))]
       ELSE MapInsert(psr4_prefix, first_letter,
                      MapInsert(EmptyMap, namespace, StrLen(namespace)))

\* the three loops over one map, its entries taken in the order `order`
RECURSIVE FoldPsr0(_, _, _, _)
FoldPsr0(psr0, name, m, order) ==
    IF order = <<>> THEN psr0
    ELSE FoldPsr0(Psr0Insert(psr0, name, Head(order), m[Head(order)]),
                  name, m, Tail(order))

RECURSIVE FoldPsr4(_, _, _, _)
FoldPsr4(psr4, name, m, order) ==
    IF order = <<>> THEN psr4
    ELSE FoldPsr4(Psr4Push(psr4, name, Head(order), m[Head(order)]),
                  name, m, Tail(order))

RECURSIVE FoldPsr4Prefix(_, _)
FoldPsr4Prefix(psr4_prefix, order) ==
    IF order = <<>> THEN psr4_prefix
    ELSE FoldPsr4Prefix(Psr4PrefixInsert(psr4_prefix, Head(order)),
                        Tail(order))

\* the autoload section of installable packages only
DirectivesOfInstalled(package) ==
    IF IsMetapackage(package) \/ DescriptorPanics(package)
    THEN None
    ELSE package.autoload

\* package.autoload, whatever the type, source and dist of the package
Directives(package) == package.autoload

Section(package, field) ==
    IF IsSome(Directives(package)) /\ IsSome(Unwrap(Directives(package))[field])
    THEN Unwrap(Unwrap(Directives(package))[field])
    ELSE EmptyMap

PackagePanics(package) ==
    \/ \E namespace \in DOMAIN Section(package, "psr0") :
           FirstLetterPanics(namespace)
    \/ \E namespace \in DOMAIN Section(package, "psr4") :
           FirstLetterPanics(namespace)

StartBuild ==
    [pc |-> "main", i |-> 1, files |-> EmptyMap, psr0 |-> EmptyMap,
     psr4 |-> EmptyMap, psr4_prefix |-> EmptyMap]

AutoloadFrame == UNCHANGED <<installerVars, parsed, classmapVars>>

\* create_dir_all(vendor/composer), then generate_main_autoload
GenerateMainAutoload ==
    /\ build.pc = "main"
    /\ composerDir' = MapInsert(composerDir, "autoload.php",
                                [hash |-> lock.content_hash])
    /\ build' = [build EXCEPT !.pc = "real"]
    /\ UNCHANGED <<lock, xxh3_64>>
    /\ AutoloadFrame

GenerateComposerReal ==
    /\ build.pc = "real"
    /\ composerDir' = MapInsert(composerDir, "composer/autoload_real.php",
                                [hash |-> lock.content_hash])
    /\ build' = [build EXCEPT !.pc = "static"]
    /\ UNCHANGED <<lock, xxh3_64>>
    /\ AutoloadFrame

InStaticLoop == build.pc = "static" /\ build.i <= Len(lock.packages)

\* one turn of `for package in lock.packages`
StaticPackage ==
    /\ InStaticLoop
    /\ LET package == lock.packages[build.i]
           files == IF Section(package, "files") = EmptyMap THEN <<>>
                    ELSE Section(package, "files")
           map0 == Section(package, "psr0")
           map4 == Section(package, "psr4")
       IN /\ ~PackagePanics(package)
          /\ \E order0 \in IterationOrders(map0),
                order4 \in IterationOrders(map4) :
                build' =
                  [build EXCEPT
                     !.i = @ + 1,
                     !.files = InsertFiles(@, package.name, files),
                     !.psr0 = FoldPsr0(@, package.name, map0, order0),
                     !.psr4 = FoldPsr4(@, package.name, map4, order4),
                     !.psr4_prefix = FoldPsr4Prefix(@, order4)]
    /\ UNCHANGED <<lock, xxh3_64, composerDir>>
    /\ AutoloadFrame

\* the turn in which chars().next().unwrap() meets an empty prefix: the
\* panic unwinds through generate_composer_autoload
StaticPanics ==
    /\ InStaticLoop
    /\ PackagePanics(lock.packages[build.i])
    /\ build' = [build EXCEPT !.pc = "panicked"]
    /\ UNCHANGED <<lock, xxh3_64, composerDir>>
    /\ AutoloadFrame

\* ComposerStaticTemplate { .. } rendered into autoload_static.php
StaticRender ==
    /\ build.pc = "static"
    /\ build.i > Len(lock.packages)
    /\ composerDir' = MapInsert(composerDir, "composer/autoload_static.php",
                                [hash |-> lock.content_hash,
                                 files |-> build.files,
                                 psr0 |-> build.psr0,
                                 psr4 |-> build.psr4,
                                 psr4_prefix |-> build.psr4_prefix])
    /\ build' = [build EXCEPT !.pc = "classloader"]
    /\ UNCHANGED <<lock, xxh3_64>>
    /\ AutoloadFrame

GenerateComposerClassloader ==
    /\ build.pc = "classloader"
    /\ composerDir' = MapInsert(composerDir, "composer/ClassLoader.php",
                                [hash |-> ""])
    /\ build' = [build EXCEPT !.pc = "done"]
    /\ UNCHANGED <<lock, xxh3_64>>
    /\ AutoloadFrame

InstallerIdle ==
    /\ manifest = <<>>
    /\ cache = [r \in References |-> NoFile]
    /\ vendor = EmptyMap
    /\ autoloadOut = {}
    /\ phase = "idle"
    /\ idx = 1
    /\ handles = <<>>
    /\ task = <<>>
    /\ log = {}
    /\ coldStart = TRUE
    /\ runs = <<>>

InitAutoload ==
    /\ InstallerIdle
    /\ ExtractionIdle
    /\ ClassmapIdle
    /\ lock \in Locks
    /\ xxh3_64 \in [FileNames -> HashValues]
    /\ build = StartBuild
    /\ composerDir = EmptyMap

NextAutoload ==
    \/ GenerateMainAutoload
    \/ GenerateComposerReal
    \/ StaticPackage
    \/ StaticPanics
    \/ StaticRender
    \/ GenerateComposerClassloader

\* one call of generate_composer_autoload
SpecAutoload == InitAutoload /\ [][NextAutoload]_vars

\* ======================================================== classmap.rs
\* ------------------------------------------- get_classes_of_statements
\* A parsed statement: a class declaration, a braced namespace (its name
\* optional), an unbraced namespace, or any other statement, which may hold
\* statements of its own (the block of an `if`, a function body).
Stmt(kind, name, body) == [kind |-> kind, name |-> name, body |-> body]

ClassStatements == {Stmt("class", Some("Bar"), <<>>),
                    Stmt("class", Some("Qux"), <<>>)}

\* the statements that have a body, without it
BlockHeads == {Stmt("braced", None, <<>>),
               Stmt("braced", Some("Foo"), <<>>),
               Stmt("braced", Some("Baz"), <<>>),
               Stmt("unbraced", Some("Foo"), <<>>),
               Stmt("other", None, <<>>)}

\* what parsing one more statement makes of the statements parsed so far:
\* the statement is added at the end of the file or at the end of the body
\* of the statement the parser is in
RECURSIVE Parsed(_, _)
Parsed(statements, stmt) ==
    {Append(statements, stmt)} \cup
        (IF statements # <<>> /\ statements[Len(statements)].kind # "class"
         THEN { [statements EXCEPT ![Len(statements)].body = body] :
                  body \in Parsed(statements[Len(statements)].body, stmt) }
         ELSE {})

\* every statement with a body searched, whatever its kind
RECURSIVE GetClassesOfEveryBlock(_, _)
GetClassesOfEveryBlock(statements, prefix) ==
    IF statements = <<>> THEN <<>>
    ELSE LET stmt == Head(statements)
             found ==
               CASE stmt.kind = "class" -> <<prefix \o <<Unwrap(stmt.name)>>>>
                 [] stmt.kind \in {"braced", "unbraced"} ->
                      GetClassesOfEveryBlock(stmt.body,
                          IF IsSome(stmt.name)
                          THEN prefix \o <<Unwrap(stmt.name), "\\">>
                          ELSE prefix)
                 [] OTHER -> GetClassesOfEveryBlock(stmt.body, prefix)
         IN found \o GetClassesOfEveryBlock(Tail(statements), prefix)

\* a String as the sequence of the pieces pushed onto it
RECURSIVE GetClassesOfStatements(_, _)
GetClassesOfStatements(statements, prefix) ==
    IF statements = <<>> THEN <<>>
    ELSE LET stmt == Head(statements)
             found ==
               CASE stmt.kind = "class" -> <<prefix \o <<Unwrap(stmt.name)>>>>
                 [] stmt.kind = "braced" ->
                      GetClassesOfStatements(stmt.body,
                          IF IsSome(stmt.name)
                          THEN prefix \o <<Unwrap(stmt.name), "\\">>
                          ELSE prefix)
                 [] stmt.kind = "unbraced" ->
                      GetClassesOfStatements(stmt.body,
                          prefix \o <<Unwrap(stmt.name), "\\">>)
                 [] OTHER -> <<>>
         IN found \o GetClassesOfStatements(Tail(statements), prefix)

ExtractionFrame == UNCHANGED <<installerVars, autoloadVars, classmapVars>>

\* php_parser_rs::parser::parse, one statement of the file at a time
ParseStatement ==
    /\ parsed.pc = "parse"
    /\ parsed.size < MaxStatements
    /\ \E stmt \in ClassStatements \cup BlockHeads :
          \E statements \in Parsed(parsed.statements, stmt) :
              parsed' = [parsed EXCEPT !.statements = statements,
                                       !.size = @ + 1]
    /\ ExtractionFrame

\* get_classes_of_statements(parsed, "".to_string())
ExtractClasses ==
    /\ parsed.pc = "parse"
    /\ parsed' = [parsed EXCEPT
                     !.pc = "done",
                     !.classes = GetClassesOfStatements(parsed.statements, <<>>)]
    /\ ExtractionFrame

InitExtraction ==
    /\ InstallerIdle
    /\ AutoloadIdle
    /\ ClassmapIdle
    /\ parsed = [pc |-> "parse", statements |-> <<>>, size |-> 0,
                 classes |-> <<>>]

NextExtraction ==
    \/ ParseStatement
    \/ ExtractClasses

\* one file parsed and handed to get_classes_of_statements
SpecExtraction == InitExtraction /\ [][NextExtraction]_vars

\* ------------------------------------------------------ generate_classmap
\* A file name is the sequence of its pieces between dots: "A.php" is
\* <<"A", "php">>, ".git" is <<"", "git">>. A path is the sequence of its
\* names below the package directory.
Name1(a) == <<a>>
Name2(a, b) == <<a, b>>

StartsWithDot(name) == name[1] = ""                 \* starts_with('.')
EndsWithExt(name, ext) == Len(name) >= 2 /\ name[Len(name)] = ext
FileName(path) == path[Len(path)]                   \* Path::file_name
PathStartsWith(path, dir) ==                        \* Path::starts_with
    Len(dir) <= Len(path) /\ SubSeq(path, 1, Len(dir)) = dir

SrcDir == <<Name1("src")>>
LibDir == <<Name1("src"), Name1("lib")>>

File(content) == [kind |-> "file", content |-> content]
Dir == [kind |-> "dir", content |-> None]
\* a directory read_dir cannot open
LockedDir == [kind |-> "locked", content |-> None]

ClassBar == Stmt("class", Some("Bar"), <<>>)
ClassQux == Stmt("class", Some("Qux"), <<>>)
FooBar == Stmt("braced", Some("Foo"), <<ClassBar>>)

\* what php_parser_rs::parse returns for the bytes of a file: Some(the
\* statements) for Ok, None for Err
DiskEntries ==
    (SrcDir :> Dir)
    @@ (<<Name1("src"), Name2("A", "php")>> :> File(Some(<<FooBar>>)))
    @@ (<<Name1("src"), Name2("broken", "php")>> :> File(None))
    @@ (<<Name1("src"), Name2("notes", "txt")>> :> File(Some(<<ClassQux>>)))
    @@ (<<Name1("src"), Name2("", "git")>> :> Dir)
    @@ (<<Name1("src"), Name2("", "git"), Name2("H", "php")>>
            :> File(Some(<<ClassQux>>)))
    @@ (<<Name1("src"), Name1("node_modules")>> :> Dir)
    @@ (<<Name1("src"), Name1("node_modules"), Name2("N", "inc")>>
            :> File(Some(<<ClassQux>>)))
    @@ (LibDir :> Dir)
    @@ (<<Name1("src"), Name1("lib"), Name2("S", "inc")>>
            :> File(Some(<<FooBar, ClassQux>>)))
    @@ (<<Name1("src"), Name2("gen", "php")>> :> Dir)
    @@ (<<Name1("src"), Name1("locked")>> :> LockedDir)
    @@ (<<Name2("classes", "txt")>> :> File(Some(<<ClassBar>>)))

Parent(path) == SubSeq(path, 1, Len(path) - 1)

\* the package directories of at most MaxEntries entries: an entry lies in
\* a directory that exists
Disks ==
    { t \in SUBSET DOMAIN DiskEntries :
        /\ Cardinality(t) <= MaxEntries
        /\ \A p \in t : Len(p) > 1 =>
              Parent(p) \in t /\ DiskEntries[Parent(p)].kind = "dir" }

ScanPaths == {SrcDir, <<Name2("classes", "txt")>>, <<Name1("missing")>>,
              <<Name1("src"), Name2("broken", "php")>>}
ExcludeLists == {<<>>, <<LibDir>>}

Children(dir) ==
    { p \in tree : Len(p) = Len(dir) + 1 /\ PathStartsWith(p, dir) }

\* the filter with the test of scoped_excludes in force
FilterExcluding(path, scoped_excludes) ==
    IF StartsWithDot(FileName(path)) THEN "IgnoreDir"
    ELSE IF \E k \in 1..Len(scoped_excludes) :
                PathStartsWith(path, scoped_excludes[k]) THEN "IgnoreDir"
    ELSE IF FileName(path) = Name1("node_modules") THEN "IgnoreDir"
    ELSE IF ~EndsWithExt(FileName(path), "php")
            /\ ~EndsWithExt(FileName(path), "inc") THEN "Ignore"
    ELSE "Continue"

\* the closure given to WalkDir::filter; scoped_excludes is in scope and
\* its test is commented out
Filter(path, scoped_excludes) ==
    IF StartsWithDot(FileName(path)) THEN "IgnoreDir"
    ELSE IF FileName(path) = Name1("node_modules") THEN "IgnoreDir"
    ELSE IF ~EndsWithExt(FileName(path), "php")
            /\ ~EndsWithExt(FileName(path), "inc") THEN "Ignore"
    ELSE "Continue"

RECURSIVE InsertClasses(_, _, _)
InsertClasses(class_to_files, names, relative_path) ==
    IF names = <<>> THEN class_to_files
    ELSE InsertClasses(MapInsert(class_to_files, Head(names), relative_path),
                       Tail(names), relative_path)

\* a file that does not parse ending the scan with an error
ScannedOrFailed(w, path) ==
    IF IsSome(DiskEntries[path].content)
    THEN [w EXCEPT !.class_to_files =
             InsertClasses(@, GetClassesOfStatements(
                                  Unwrap(DiskEntries[path].content), <<>>), path),
                   !.yielded = @ \cup {path}]
    ELSE [w EXCEPT !.pc = "done", !.result = "Err",
                   !.yielded = @ \cup {path}]

\* read, parse and `match parsed`: Ok inserts the classes, Err prints
Scanned(w, path) ==
    IF IsSome(DiskEntries[path].content)
    THEN [w EXCEPT !.class_to_files =
             InsertClasses(@, GetClassesOfStatements(
                                  Unwrap(DiskEntries[path].content), <<>>), path),
                   !.yielded = @ \cup {path}]
    ELSE [w EXCEPT !.yielded = @ \cup {path}]

ScanDirectory == request.class_map_directory
ScopedExcludes == request.exclude_directories

ClassmapFrame ==
    UNCHANGED <<installerVars, autoloadVars, parsed, tree, request>>

\* !scan_directory.exists()
ClassmapOfMissing ==
    /\ walk.pc = "start"
    /\ ScanDirectory \notin tree
    /\ walk' = [walk EXCEPT !.pc = "done", !.result = "Ok"]
    /\ ClassmapFrame

\* scan_directory.is_file()
ClassmapOfFile ==
    /\ walk.pc = "start"
    /\ ScanDirectory \in tree
    /\ DiskEntries[ScanDirectory].kind = "file"
    /\ walk' = LET w == Scanned(walk, ScanDirectory)
               IN IF w.pc = "done" THEN w
                  ELSE [w EXCEPT !.pc = "done", !.result = "Ok"]
    /\ ClassmapFrame

\* WalkDir::new(scan_directory): the first next() opens the directory
WalkStart ==
    /\ walk.pc = "start"
    /\ ScanDirectory \in tree
    /\ DiskEntries[ScanDirectory].kind = "dir"
    /\ walk' = [walk EXCEPT !.pc = "walk",
                            !.dirs = <<Children(ScanDirectory)>>]
    /\ ClassmapFrame

Walking == walk.pc = "walk" /\ walk.dirs # <<>>
Top == walk.dirs[Len(walk.dirs)]

\* the directories still open once `entry` is taken from the innermost
\* one; a directory the filter does not answer IgnoreDir for is opened
Taken(entry) ==
    LET rest == [walk.dirs EXCEPT ![Len(walk.dirs)] = @ \ {entry}]
    IN IF DiskEntries[entry].kind = "dir"
          /\ Filter(entry, ScopedExcludes) # "IgnoreDir"
       THEN Append(rest, Children(entry))
       ELSE rest

\* an entry the filter answers Ignore or IgnoreDir for
WalkIgnore ==
    /\ Walking
    /\ \E entry \in Top :
          /\ Filter(entry, ScopedExcludes) # "Continue"
          /\ ~(DiskEntries[entry].kind = "locked"
               /\ Filter(entry, ScopedExcludes) # "IgnoreDir")
          /\ walk' = [walk EXCEPT !.dirs = Taken(entry)]
    /\ ClassmapFrame

\* read_dir fails on a directory to descend into: Some(Err(e)) => return Err
WalkError ==
    /\ Walking
    /\ \E entry \in Top :
          /\ DiskEntries[entry].kind = "locked"
          /\ Filter(entry, ScopedExcludes) # "IgnoreDir"
          /\ walk' = [walk EXCEPT !.pc = "done", !.result = "Err"]
    /\ ClassmapFrame

\* Some(Ok(entry)) with a file: the body of the loop
WalkYield ==
    /\ Walking
    /\ \E entry \in Top :
          /\ Filter(entry, ScopedExcludes) = "Continue"
          /\ DiskEntries[entry].kind = "file"
          /\ walk' = Scanned([walk EXCEPT !.dirs = Taken(entry)], entry)
    /\ ClassmapFrame

\* Some(Ok(entry)) with a directory: tokio::fs::read fails, expect panics
WalkYieldDirectory ==
    /\ Walking
    /\ \E entry \in Top :
          /\ Filter(entry, ScopedExcludes) = "Continue"
          /\ DiskEntries[entry].kind = "dir"
          /\ walk' = [walk EXCEPT !.pc = "done", !.result = "Panic",
                                  !.dirs = Taken(entry),
                                  !.yielded = @ \cup {entry}]
    /\ ClassmapFrame

\* the innermost directory has no entry left
WalkLeaveDirectory ==
    /\ Walking
    /\ Top = {}
    /\ walk' = [walk EXCEPT !.dirs = SubSeq(@, 1, Len(@) - 1)]
    /\ ClassmapFrame

\* None => break; Ok(class_to_files)
WalkEnd ==
    /\ walk.pc = "walk"
    /\ walk.dirs = <<>>
    /\ walk' = [walk EXCEPT !.pc = "done", !.result = "Ok"]
    /\ ClassmapFrame

InitClassmap ==
    /\ InstallerIdle
    /\ AutoloadIdle
    /\ ExtractionIdle
    /\ tree \in Disks
    /\ \E scan \in ScanPaths, excludes \in ExcludeLists :
          request = [pc |-> "called", class_map_directory |-> scan,
                     exclude_directories |-> excludes]
    /\ walk = [pc |-> "start", dirs |-> <<>>, class_to_files |-> EmptyMap,
               yielded |-> {}, result |-> "none"]

NextClassmap ==
    \/ ClassmapOfMissing
    \/ ClassmapOfFile
    \/ WalkStart
    \/ WalkIgnore
    \/ WalkError
    \/ WalkYield
    \/ WalkYieldDirectory
    \/ WalkLeaveDirectory
    \/ WalkEnd

\* one call of generate_classmap
SpecClassmap == InitClassmap /\ [][NextClassmap]_vars

\* ------------------------------------------------ vocabulary of the claims
LastRun == runs[Len(runs)]

\* an `install` has just returned (or died); task, handles, idx and log
\* still describe it
RunEnded == phase = "idle" /\ Len(runs) > 0 /\ LastRun.command = "install"

Virtual(p) == manifest[p].package_type = Some("metapackage")
HasDescriptor(p) == IsSome(manifest[p].dist) \/ IsSome(manifest[p].source)
Attempted(p) == task[p].pc \in {"ok", "err", "panicked"}
Events(l, p) == { e[2] : e \in { x \in l : x[1] = p } }

\* the failure kind (section 7 of the specification) an error message of
\* the program stands for
ErrorKind(result) ==
    IF result.tag = "Err" /\ result.msg[1] = "Future failed with error: "
    THEN IF result.msg[2] = "Unsupported source type: "
         THEN "UnsupportedDistributionKind"
         ELSE "Unknown"
    ELSE IF result.tag = "Err" THEN "TaskFault"
    ELSE "None"

NamesPackage(result, name) ==
    \E k \in 1..Len(result.msg) : result.msg[k] = name

Reports(result, kind, name) ==
    /\ result.tag = "Err"
    /\ ErrorKind(result) = kind
    /\ NamesPackage(result, name)

\* the failure kind of a failed task
FailureKind(t) ==
    IF t.pc = "err" THEN "UnsupportedDistributionKind"
    ELSE IF t.error = <<"failed to download package">> THEN "NetworkFailure"
    ELSE "ExtractionFailure"

\* ------------------------------------------------------------------ C1
\* C1: when a package that is not a metapackage has neither source nor
\* dist, the install run ends with a returned error of kind
\* MissingArtifactDescriptor that names such a package, and no work was
\* started for that package.
C1_MissingDescriptorReported ==
    (RunEnded /\ \E p \in Pkgs : ~Virtual(p) /\ ~HasDescriptor(p)) =>
        \E p \in Pkgs :
            /\ ~Virtual(p) /\ ~HasDescriptor(p)
            /\ Reports(LastRun.result, "MissingArtifactDescriptor",
                       manifest[p].name)
            /\ task[p].pc = "none"

\* ------------------------------------------------------------------ C2
PreferredDescriptor(p) ==
    IF IsSome(manifest[p].dist) THEN manifest[p].dist[1]
                                ELSE manifest[p].source[1]

\* C2: a package that is not a metapackage and has a descriptor never makes
\* the loop fail, and the descriptor handed to its task is dist when dist is
\* present and source otherwise.
C2_DistPreferred ==
    \A p \in Pkgs : (~Virtual(p) /\ HasDescriptor(p)) =>
        /\ (phase = "abort" => idx # p)
        /\ (task[p].pc # "none" => task[p].source = PreferredDescriptor(p))

\* ------------------------------------------------------------------ C3
\* C3: when the run is over, the task of every package that is not a
\* metapackage was started and has finished, with success or failure: none
\* was cancelled or left unstarted because of another package's failure.
\* (Stated for the packages that carry both descriptors, whose own
\* descriptor cannot be what fails.)
C3_WaitForAll ==
    RunEnded =>
        \A p \in Pkgs :
            (/\ ~Virtual(p)
             /\ IsSome(manifest[p].source) /\ IsSome(manifest[p].dist)) =>
                Attempted(p)

\* ------------------------------------------------------------------ C4
\* C4: the install run returns success exactly when the unit of work of
\* every package that is not a metapackage succeeded.
C4_SuccessIffAllSucceeded ==
    RunEnded =>
        (LastRun.result.tag = "Ok"
            <=> \A p \in Pkgs : ~Virtual(p) => task[p].pc = "ok")

\* a run that reports failure with one task succeeded and one panicked
C4_Witness ==
    /\ RunEnded
    /\ LastRun.result.tag = "Err"
    /\ \E p, q \in Pkgs : task[p].pc = "ok" /\ task[q].pc = "panicked"

\* ------------------------------------------------------------------ C5
Installs(k) == runs[k].command = "install" /\ runs[k + 1].command = "install"

\* C5: after a successful install that started with an empty cache, the
\* next install of the same manifest makes no fetch, takes the cache-hit
\* path for every package that is not a metapackage, and leaves the vendor
\* tree as the first run left it.
C5_WarmCacheIdempotent ==
    /\ \A k \in 1..(Len(runs) - 1) :
          (Installs(k) /\ runs[k].cold /\ runs[k].result.tag = "Ok") =>
              /\ \A p \in Pkgs : "fetch" \notin Events(runs[k + 1].log, p)
              /\ \A p \in Pkgs :
                    ~Virtual(p) => "hit" \in Events(runs[k + 1].log, p)
              /\ runs[k + 1].vendor = runs[k].vendor
    /\ (/\ phase = "loop" /\ Len(runs) > 0
        /\ LastRun.command = "install"
        /\ LastRun.cold /\ LastRun.result.tag = "Ok") =>
           \A p \in Pkgs : "fetch" \notin Events(log, p)

\* the second of two installs has ended, two packages having been extracted
\* from the cache
C5_Witness ==
    /\ phase = "idle" /\ Len(runs) = 2
    /\ Installs(1) /\ runs[1].cold /\ runs[1].result.tag = "Ok"
    /\ \E p, q \in Pkgs :
          /\ p # q
          /\ "fetch" \in Events(runs[1].log, p)
          /\ "fetch" \in Events(runs[1].log, q)
          /\ {"hit", "extract"} \subseteq Events(runs[2].log, p)
          /\ {"hit", "extract"} \subseteq Events(runs[2].log, q)

\* ------------------------------------------------------------------ C6
SharedReference(p, q) ==
    /\ p # q
    /\ task[p].pc # "none" /\ task[q].pc # "none"
    /\ task[p].source = task[q].source
    /\ task[p].source.source_type = "zip"
    /\ ServerArchive(task[p].source.url) \in GoodArchives

Complete(source) == ArchiveBytes(ServerArchive(source.url))

\* C6: no task ever holds bytes read from a partially written cache entry,
\* and when two packages with the same reference were installed by a run
\* that started with an empty cache, and no fetch failed, both tasks
\* succeeded, both directories hold the archive and the cache slot holds
\* the complete bytes.
C6_DuplicateReferenceBenign ==
    /\ \A p \in Pkgs :
          (task[p].cache_hit /\ task[p].pc # "read") =>
              task[p].buffer = Complete(task[p].source)
    /\ RunEnded =>
          \A p, q \in Pkgs :
              (/\ SharedReference(p, q) /\ LastRun.cold
               /\ LastRun.result.tag # "Panic"
               /\ task[p].error # <<"failed to download package">>
               /\ task[q].error # <<"failed to download package">>) =>
                  /\ task[p].pc = "ok" /\ task[q].pc = "ok"
                  /\ ServerArchive(task[p].source.url)
                        \in vendor[manifest[p].name].files
                  /\ ServerArchive(task[q].source.url)
                        \in vendor[manifest[q].name].files
                  /\ cache[task[p].source.reference].bytes
                        = Complete(task[p].source)

\* ------------------------------------------------------------------ C7
AutoloadFiles ==
    {"autoload.php", "composer/autoload_real.php",
     "composer/autoload_static.php", "composer/ClassLoader.php"}

\* C7: when the install operation returns success, every package that is
\* not a metapackage has its vendor directory populated and the four
\* autoload files have been generated.
C7_AutoloadGenerated ==
    (RunEnded /\ LastRun.result.tag = "Ok") =>
        /\ \A p \in Pkgs :
              ~Virtual(p) => vendor[manifest[p].name].files # {}
        /\ autoloadOut = AutoloadFiles

\* ------------------------------------------------------------------ C8
\* C8: when clear-cache has completed no cached archive remains, and in a
\* sequence install; clear-cache; install the second install takes no
\* cache hit.
C8_ClearCacheEmpties ==
    /\ (phase = "idle" /\ Len(runs) > 0 /\ LastRun.command = "clear-cache")
          => CacheIsEmpty
    /\ \A k \in 1..(Len(runs) - 2) :
          (/\ runs[k].command = "install"
           /\ runs[k + 1].command = "clear-cache"
           /\ runs[k + 2].command = "install") =>
              \A p \in Pkgs : "hit" \notin Events(runs[k + 2].log, p)

\* ------------------------------------------------------------------ C9
\* C9: when the install run returns an error, the error is a domain error
\* that names a package whose task failed and carries the kind of that
\* task's failure.
C9_FailureNamesPackageAndKind ==
    (RunEnded /\ LastRun.result.tag = "Err") =>
        \E p \in Pkgs :
            /\ task[p].pc \in {"err", "panicked"}
            /\ Reports(LastRun.result, FailureKind(task[p]),
                       manifest[p].name)

\* ----------------------------------------------------------------- C10
\* C10: for a metapackage the run spawns no task, makes no fetch, writes no
\* cache entry and creates no vendor directory, and the loop never fails at
\* it; a manifest of metapackages alone installs successfully.
C10_MetapackagesSkipped ==
    /\ \A p \in Pkgs : Virtual(p) =>
          /\ task[p].pc = "none"
          /\ \A k \in 1..Len(handles) : handles[k] # p
          /\ Events(log, p) = {}
          /\ ~vendor[manifest[p].name].exists
          /\ (phase = "abort" => idx # p)
    /\ (RunEnded /\ \A p \in Pkgs : Virtual(p)) => LastRun.result = OkResult

\* a successful run of a manifest that holds a metapackage without source
\* and dist and a package that was installed
C10_Witness ==
    /\ RunEnded
    /\ LastRun.result.tag = "Ok"
    /\ \E p, q \in Pkgs :
          /\ Virtual(p) /\ ~HasDescriptor(p)
          /\ task[q].pc = "ok"

\* C15: in a run that started with an empty cache, a cache entry exists for a
\* reference only if a task of that reference has extracted its archive, and
\* every task goes through its steps in the order fetch (or, once a sibling
\* has created the entry, cache read), create the destination directory,
\* extract, write the cache entry: a task that stopped at or before the
\* extraction has written no cache entry, and neither has a task that read
\* the cache.
C15_PersistAfterExtract ==
    (phase # "idle" \/ RunEnded) /\ coldStart =>
        /\ \A r \in References :
              cache[r].exists =>
                  \E p \in Pkgs : /\ task[p].source.reference = r
                                  /\ <<p, "extract">> \in log
        /\ \A p \in Pkgs :
              /\ <<p, "cache-write">> \in log => <<p, "extract">> \in log
              /\ <<p, "extract">> \in log => <<p, "mkdir">> \in log
              /\ <<p, "mkdir">> \in log =>
                     <<p, "fetch">> \in log \/ <<p, "hit">> \in log
              /\ <<p, "hit">> \in log => <<p, "cache-write">> \notin log

\* a cold run has ended in which one task died in the extraction, leaving
\* no cache entry, and another task wrote the entry of its own reference
C15_Witness ==
    /\ RunEnded /\ coldStart
    /\ \E p, q \in Pkgs :
          /\ task[p].pc = "panicked"
          /\ <<p, "mkdir">> \in log /\ <<p, "extract">> \notin log
          /\ ~cache[task[p].source.reference].exists
          /\ task[q].pc = "ok"
          /\ cache[task[q].source.reference].exists

\* the step is a step of the task of package p alone
StepOf(p) ==
    /\ task'[p] # task[p]
    /\ \A q \in Pkgs \ {p} : task'[q] = task[q]

\* C16: every change under vendor/<name> is made by a step of the one task
\* whose package has that name, and every change of a cache entry by a step
\* of a task whose reference names that entry; no two packages share a
\* vendor directory, so the only location written by more than one task is
\* the cache entry of a reference they share.
C16_VendorIsolation ==
    [][ /\ \A p, q \in Pkgs : p # q => manifest[p].name # manifest[q].name
        /\ \A n \in DOMAIN vendor :
              vendor'[n] # vendor[n] =>
                  \E p \in Pkgs : manifest[p].name = n /\ StepOf(p)
        /\ \A r \in References :
              cache'[r] # cache[r] =>
                  \E p \in Pkgs : /\ StepOf(p)
                                  /\ task[p].source.reference = r ]_vars

\* two tasks of one reference have each extracted into their own directory
\* and have both written the cache entry they share
C16_Witness ==
    \E p, q \in Pkgs :
        /\ p # q
        /\ task[p].source.reference = task[q].source.reference
        /\ <<p, "cache-write">> \in log /\ <<q, "cache-write">> \in log
        /\ vendor[manifest[p].name].files # {}
        /\ vendor[manifest[q].name].files # {}

\* ------------------------------------- vocabulary of the autoload claims
Built == build.pc = "done"
StaticTemplate == composerDir["composer/autoload_static.php"]
FilesIndex == StaticTemplate.files
Psr0Index == StaticTemplate.psr0
Psr4PathsIndex == StaticTemplate.psr4
Psr4PrefixIndex == StaticTemplate.psr4_prefix

LockPkgs == 1..Len(lock.packages)

\* package i has an autoload section with the map `field`, and it has `key`
Declares(i, field, key) ==
    LET a == lock.packages[i].autoload
    IN /\ IsSome(a)
       /\ IsSome(Unwrap(a)[field])
       /\ key \in DOMAIN Unwrap(Unwrap(a)[field])

Declared(i, field, key) == Unwrap(Unwrap(lock.packages[i].autoload)[field])[key]

DeclaredKeys(field) ==
    UNION { { k \in {NsApp, NsAb, NsWide, NsEmpty, NsOld, NsOx} :
                Declares(i, field, k) } : i \in LockPkgs }

\* <package-name>/<path>
Base(i, path) == <<lock.packages[i].name, "/", path>>

\* the k-th member of a set of positions, in manifest order
Nth(S, k) == CHOOSE i \in S : Cardinality({j \in S : j < i}) = k - 1

\* C11: once the index is built, the keys of Psr4PathsIndex are the declared
\* PSR-4 prefixes, and the sequence of a prefix holds <package-name>/<path>
\* of every package that declares the prefix, one entry per package, in the
\* order of the packages in the manifest.
C11_Psr4Accumulates ==
    Built =>
        /\ DOMAIN Psr4PathsIndex = DeclaredKeys("psr4")
        /\ \A prefix \in DeclaredKeys("psr4") :
              LET D == {i \in LockPkgs : Declares(i, "psr4", prefix)}
              IN Psr4PathsIndex[prefix] =
                     [k \in 1..Cardinality(D) |->
                         Base(Nth(D, k), Declared(Nth(D, k), "psr4", prefix))]

\* two packages declare one prefix, the first with src/, the second with lib/
C11_Witness ==
    /\ Built
    /\ Len(lock.packages) >= 2
    /\ Declares(1, "psr4", NsApp) /\ Declared(1, "psr4", NsApp) = "src/"
    /\ Declares(2, "psr4", NsApp) /\ Declared(2, "psr4", NsApp) = "lib/"
    /\ Psr4PathsIndex[NsApp] = <<Base(1, "src/"), Base(2, "lib/")>>

\* the declarations of files: <<package, position in its files list>>
FilesOf(i) ==
    LET a == lock.packages[i].autoload
    IN IF IsSome(a) /\ IsSome(Unwrap(a).files) THEN Unwrap(Unwrap(a).files)
                                                ELSE <<>>

FileDecls == UNION { {<<i, j>> : j \in 1..Len(FilesOf(i))} : i \in LockPkgs }

FileOf(d) == FilesOf(d[1])[d[2]]
FileKey(file) == U64ToString(xxh3_64[file])
Before(d, e) == d[1] < e[1] \/ (d[1] = e[1] /\ d[2] <= e[2])

\* the last declaration satisfying P
LastDecl(P(_)) ==
    CHOOSE d \in FileDecls :
        P(d) /\ \A e \in FileDecls : P(e) => Before(e, d)

\* C12 as stated: once built, FilesIndex has exactly one entry per distinct
\* declared file identifier, under the hash of the identifier, and the value
\* is <package-name>/<file> of the last package declaring that identifier.
C12_OneEntryPerIdentifier ==
    Built =>
        LET ids == {FileOf(d) : d \in FileDecls}
        IN /\ Cardinality(DOMAIN FilesIndex) = Cardinality(ids)
           /\ \A f \in ids :
                 LET Same(d) == FileOf(d) = f
                 IN /\ FileKey(f) \in DOMAIN FilesIndex
                    /\ FilesIndex[FileKey(f)] = Base(LastDecl(Same)[1], f)

\* C12 amended: once built, FilesIndex has exactly one entry per distinct
\* hash of the declared file identifiers, and the value is
\* <package-name>/<file> of the last declaration (in manifest order, then in
\* the order of the package's list) whose identifier has that hash.
C12_OneEntryPerHash ==
    Built =>
        /\ DOMAIN FilesIndex = {FileKey(FileOf(d)) : d \in FileDecls}
        /\ \A key \in DOMAIN FilesIndex :
              LET Same(d) == FileKey(FileOf(d)) = key
                  last == LastDecl(Same)
              IN FilesIndex[key] = Base(last[1], FileOf(last))

\* two packages declare the same identifier and a second one, and the two
\* identifiers have the same hash: one entry, of the last declaration
C12_Witness ==
    /\ Built
    /\ xxh3_64["f.php"] = xxh3_64["g.php"]
    /\ \E d, e \in FileDecls :
          /\ d[1] < e[1]
          /\ FileOf(d) = "f.php" /\ FileOf(e) = "g.php"
          /\ \E e2 \in FileDecls : e2[1] = e[1] /\ FileOf(e2) = "f.php"
    /\ Cardinality(DOMAIN FilesIndex) = 1

Range(seq) == {seq[k] : k \in 1..Len(seq)}

\* C14: once built, the directives of every package of the manifest are in
\* the index, whether or not the installer would install the package
\* (metapackages and packages without source and dist included), and the
\* three rendered files carry the content_hash of the manifest.
C14_EveryPackageIndexed ==
    Built =>
        /\ \A d \in FileDecls : FileKey(FileOf(d)) \in DOMAIN FilesIndex
        /\ \A i \in LockPkgs :
              /\ \A ns \in DeclaredKeys("psr0") :
                    Declares(i, "psr0", ns) =>
                        /\ ns # <<>>
                        /\ Head(ns) \in DOMAIN Psr0Index
                        /\ ns \in DOMAIN Psr0Index[Head(ns)]
                        /\ Base(i, Declared(i, "psr0", ns))
                               \in DOMAIN Psr0Index[Head(ns)][ns]
              /\ \A ns \in DeclaredKeys("psr4") :
                    Declares(i, "psr4", ns) =>
                        /\ ns \in DOMAIN Psr4PathsIndex
                        /\ Base(i, Declared(i, "psr4", ns))
                               \in Range(Psr4PathsIndex[ns])
        /\ composerDir["autoload.php"].hash = lock.content_hash
        /\ composerDir["composer/autoload_real.php"].hash = lock.content_hash
        /\ StaticTemplate.hash = lock.content_hash

Uninstalled(i) ==
    \/ lock.packages[i].package_type = Some("metapackage")
    \/ (lock.packages[i].source = None /\ lock.packages[i].dist = None)

\* a metapackage and a package without source and dist have their files,
\* PSR-0 and PSR-4 directives in the built index
C14_Witness ==
    /\ Built
    /\ \E i, j \in LockPkgs :
          /\ lock.packages[i].package_type = Some("metapackage")
          /\ Declares(i, "psr4", NsApp)
          /\ Base(i, Declared(i, "psr4", NsApp)) \in Range(Psr4PathsIndex[NsApp])
          /\ lock.packages[j].package_type = None /\ Uninstalled(j)
          /\ Declares(j, "psr0", NsOld)
          /\ Base(j, Declared(j, "psr0", NsOld))
                 \in DOMAIN Psr0Index["O"][NsOld]
          /\ \E d \in FileDecls : d[1] = j

\* C17: no package's PSR-4 entries stop the build, whatever their prefix
\* strings; once built, the length
\* recorded under Psr4PrefixIndex[first char][prefix] is the number of chars
\* of the prefix, the prefixes of Psr4PrefixIndex are exactly the keys of
\* Psr4PathsIndex, each in the bucket of its first char only, and every
\* PSR-0 entry is in the path set Psr0Index[first char][prefix].
C17_PrefixTable ==
    /\ \A i \in LockPkgs :
          (\E prefix \in DeclaredKeys("psr4") : Declares(i, "psr4", prefix)) =>
              ~(build.pc = "panicked" /\ build.i = i)
    /\ Built =>
          /\ \A prefix \in DOMAIN Psr4PathsIndex :
                \A c \in DOMAIN Psr4PrefixIndex :
                    prefix \in DOMAIN Psr4PrefixIndex[c] <=>
                        (prefix # <<>> /\ c = Head(prefix))
          /\ \A c \in DOMAIN Psr4PrefixIndex :
                \A prefix \in DOMAIN Psr4PrefixIndex[c] :
                    /\ prefix \in DOMAIN Psr4PathsIndex
                    /\ Psr4PrefixIndex[c][prefix] = Len(prefix)
          /\ \A i \in LockPkgs :
                \A ns \in DeclaredKeys("psr0") :
                    Declares(i, "psr0", ns) =>
                        /\ ns # <<>>
                        /\ Head(ns) \in DOMAIN Psr0Index
                        /\ ns \in DOMAIN Psr0Index[Head(ns)]
                        /\ Base(i, Declared(i, "psr0", ns))
                               \in DOMAIN Psr0Index[Head(ns)][ns]

\* ------------------------------------ vocabulary of the classmap claims
\* the positions of the statements of a file: <<i>> is the i-th top-level
\* statement, <<i, j>> the j-th statement of its body, and so on
RECURSIVE Positions(_)
Positions(statements) ==
    UNION { {<<i>>} \cup { <<i>> \o q : q \in Positions(statements[i].body) } :
            i \in 1..Len(statements) }

RECURSIVE StmtAt(_, _)
StmtAt(statements, pos) ==
    IF Len(pos) = 1 THEN statements[pos[1]]
    ELSE StmtAt(statements[pos[1]].body, Tail(pos))

\* the statements enclosing position pos, outermost first
Enclosing(statements, pos) ==
    [k \in 1..(Len(pos) - 1) |-> StmtAt(statements, SubSeq(pos, 1, k))]

\* a class declaration all of whose enclosing statements are namespaces
ClassPositions(statements) ==
    { pos \in Positions(statements) :
        /\ StmtAt(statements, pos).kind = "class"
        /\ \A k \in 1..(Len(pos) - 1) :
              Enclosing(statements, pos)[k].kind \in {"braced", "unbraced"} }

\* name and separator of every named namespace of a list, in order
RECURSIVE Qualifier(_)
Qualifier(blocks) ==
    IF blocks = <<>> THEN <<>>
    ELSE (IF Head(blocks).name = None THEN <<>>
          ELSE <<Head(blocks).name[1], "\\">>) \o Qualifier(Tail(blocks))

QualifiedName(statements, pos) ==
    Qualifier(Enclosing(statements, pos))
        \o <<StmtAt(statements, pos).name[1]>>

\* C13: the names returned for a file are, one for one, its class
\* declarations that are top-level or enclosed by namespace blocks only,
\* each named by the names of its enclosing named namespaces, outermost
\* first and each followed by the separator, then the class name; an
\* unnamed block adds nothing to the name, a namespace adds nothing to the
\* names of its siblings, and a class inside any other statement is not
\* returned.
C13_ClassesOfNamespaces ==
    parsed.pc = "done" =>
        LET cp == ClassPositions(parsed.statements)
            names == {QualifiedName(parsed.statements, pos) : pos \in cp}
        IN /\ Len(parsed.classes) = Cardinality(cp)
           /\ \A name \in names \cup Range(parsed.classes) :
                 Cardinality({k \in 1..Len(parsed.classes) :
                                 parsed.classes[k] = name})
                   = Cardinality({pos \in cp :
                                 QualifiedName(parsed.statements, pos) = name})

\* the braced blocks Foo { class Bar } and Baz { class Qux } give Foo\Bar
\* and Baz\Qux
C13_Witness ==
    /\ parsed.pc = "done"
    /\ parsed.statements =
          <<Stmt("braced", Some("Foo"), <<Stmt("class", Some("Bar"), <<>>)>>),
            Stmt("braced", Some("Baz"), <<Stmt("class", Some("Qux"), <<>>)>>)>>
    /\ parsed.classes = <<<<"Foo", "\\", "Bar">>, <<"Baz", "\\", "Qux">>>>

\* the class names a file declares, by the positions of its statements
ClassNames(path) ==
    IF DiskEntries[path].content = None THEN {}
    ELSE LET statements == DiskEntries[path].content[1]
         IN { QualifiedName(statements, pos) :
                pos \in ClassPositions(statements) }

Parseable(path) == DiskEntries[path].content # None

\* a name starting with a dot, or the name node_modules
Pruned(path) ==
    FileName(path)[1] = "" \/ FileName(path) = <<"node_modules">>

\* path lies below the scan root and no entry between the root and it is
\* pruned
Reached(path) ==
    /\ Len(path) > Len(ScanDirectory)
    /\ SubSeq(path, 1, Len(ScanDirectory)) = ScanDirectory
    /\ \A k \in (Len(ScanDirectory) + 1)..(Len(path) - 1) :
          ~Pruned(SubSeq(path, 1, k))

SourceName(path) ==
    /\ Len(FileName(path)) >= 2
    /\ FileName(path)[Len(FileName(path))] \in {"php", "inc"}

\* the regular files the scan of a directory is to hand to the builder
EligibleFiles ==
    { path \in tree :
        /\ Reached(path) /\ ~Pruned(path) /\ SourceName(path)
        /\ DiskEntries[path].kind = "file" }

ScanIs(kind) ==
    ScanDirectory \in tree /\ DiskEntries[ScanDirectory].kind = kind

Returned(result) == walk.pc = "done" /\ walk.result = result

\* C18: a file that does not parse adds no entry and does not end the
\* scan: a scan that returns Ok has seen every eligible file and its index
\* is an index of the files that parse (each class of such a file, mapped
\* to a file that declares it); a scan ends with an error only for a
\* directory that cannot be opened, and dies only on reading a directory.
C18_ParseFailuresSkipped ==
    /\ Returned("Ok") =>
          LET good == {path \in walk.yielded : Parseable(path)}
          IN /\ ScanIs("dir") => EligibleFiles \subseteq walk.yielded
             /\ DOMAIN walk.class_to_files
                    = UNION {ClassNames(path) : path \in good}
             /\ \A name \in DOMAIN walk.class_to_files :
                   /\ walk.class_to_files[name] \in good
                   /\ name \in ClassNames(walk.class_to_files[name])
    /\ walk.pc = "done" => walk.result \in {"Ok", "Err", "Panic"}
    /\ Returned("Err") =>
          \E path \in tree : /\ DiskEntries[path].kind = "locked"
                             /\ Reached(path) /\ ~Pruned(path)
    /\ Returned("Panic") =>
          \E path \in walk.yielded : DiskEntries[path].kind = "dir"

\* a scan has returned Ok after a file that does not parse and a file that
\* does, with the classes of the second in the index
C18_Witness ==
    /\ Returned("Ok")
    /\ \E bad, good \in walk.yielded :
          /\ ~Parseable(bad)
          /\ Parseable(good)
          /\ \E name \in ClassNames(good) :
                /\ name \in DOMAIN walk.class_to_files
                /\ walk.class_to_files[name] = good

\* C19: every entry handed to the classmap builder is a regular file; the
\* scan of a directory hands over exactly the files named *.php or *.inc
\* that no dot entry and no node_modules directory lies above; a scan path
\* that is a file hands over that file, whatever its name; a scan path
\* that does not exist gives the empty index and no error.
C19_ScannerYieldsSourceFiles ==
    /\ \A path \in walk.yielded : DiskEntries[path].kind = "file"
    /\ Returned("Ok") /\ ScanIs("dir") => walk.yielded = EligibleFiles
    /\ walk.pc = "done" /\ ScanIs("file") =>
          walk.result = "Ok" /\ walk.yielded = {ScanDirectory}
    /\ walk.pc = "done" /\ ScanDirectory \notin tree =>
          /\ walk.result = "Ok"
          /\ walk.yielded = {}
          /\ walk.class_to_files = EmptyMap

\* C20: what a scan that returns Ok has handed over and indexed is fixed by
\* the package directory and the scan path: the files and classes of the
\* directories named in exclude_directories are there like any others.
C20_ExcludesIgnored ==
    Returned("Ok") /\ ScanIs("dir") =>
        /\ walk.yielded = EligibleFiles
        /\ DOMAIN walk.class_to_files
               = UNION {ClassNames(path) : path \in EligibleFiles}
        /\ \A name \in DOMAIN walk.class_to_files :
              /\ walk.class_to_files[name] \in EligibleFiles
              /\ name \in ClassNames(walk.class_to_files[name])

\* src/lib is excluded, and its file S.inc is in the index
C20_Witness ==
    /\ Returned("Ok")
    /\ request.exclude_directories = <<LibDir>>
    /\ \E path \in walk.yielded :
          /\ PathStartsWith(path, LibDir)
          /\ <<"Qux">> \in DOMAIN walk.class_to_files
          /\ walk.class_to_files[<<"Qux">>] = path

\* ----------------------------------------------------------------- C21
Failed(p) == task[p].pc \in {"err", "panicked"}
FailedPkgs == { p \in Pkgs : Failed(p) }
Earliest == CHOOSE p \in FailedPkgs : \A q \in FailedPkgs : p <= q

\* the result is the one error of the task t and of no other task
Surfaces(result, t) ==
    /\ result.tag = "Err"
    /\ ErrorKind(result) =
          (IF t.pc = "err" THEN FailureKind(t) ELSE "TaskFault")
    /\ t.pc = "err" => SubSeq(result.msg, 2, Len(result.msg)) = t.error
    /\ t.pc = "panicked" => Len(result.msg) = 2

\* C21: when the tasks of several packages failed in one install run, the
\* error the run reports is the error of the failed package that comes
\* first in the manifest, in whatever order the tasks ended, and it is
\* the only failure reported.
C21_EarliestFailureSurfaced ==
    (RunEnded /\ Cardinality(FailedPkgs) >= 2) =>
        Surfaces(LastRun.result, task[Earliest])

====
